---- MODULE Spec2Model ----
(***************************************************************************)
(* Yex: the trial / block / session engine of src/yex/mod.rs.              *)
(*                                                                         *)
(* One thread of control runs demo -> Block::run -> Trial::run; pc is the  *)
(* position of that thread.  The environment (a clock and the participant's*)
(* key presses) moves on its own.  Durations and the clock are in          *)
(* microseconds.                                                           *)
(***************************************************************************)
EXTENDS Naturals, Sequences, FiniteSets

----------------------------------------------------------------------------
(* Bounds of the model *)

MaxTicks == 2
MaxInputs == 1
MaxTrials == 2
MaxBlocks == 2
MaxCalls == 2

(* Granularity of the clock: one tick of the environment, in microseconds *)
TickUs == 500000

----------------------------------------------------------------------------
(* Durations the source sets, in microseconds *)

TrialPreludeUs == 500
TrialStimulusUs == 500
TrialAdvanceUs == 500000
BlockPreludeUs == 1000000
BlockRelaxUs == 2000000
RespondDelayUs == 500000
WelcomeDelayUs == 500000
NumDefaultTrials == 3
NumDefaultBlocks == 2

Durations == {TrialPreludeUs, TrialAdvanceUs}
Keys == {"y", "n"}
KeySets == {{"y"}, {"n"}}

----------------------------------------------------------------------------
(* trial::Prelude, trial::Advance, trial::Stimulus, trial::Response *)

PNow == [kind |-> "Now"]
PBlank(d) == [kind |-> "Blank", dur |-> d]
PFix(d) == [kind |-> "Fix", dur |-> d]
PPrime(d, s) == [kind |-> "Prime", dur |-> d, stim |-> s]

SBlank(d) == [kind |-> "Blank", dur |-> d]
SText(d) == [kind |-> "Text", dur |-> d, size |-> 12, color |-> <<0, 0, 0>>]

AWait(d) == [kind |-> "Wait", dur |-> d]
AKeys(ks) == [kind |-> "Keys", keys |-> ks]
AKeysMaxWait(ks, d) == [kind |-> "KeysMaxWait", keys |-> ks, dur |-> d]

RespRT(d) == [kind |-> "RT", dur |-> d]
RespChoice(k) == [kind |-> "Choice", key |-> k]
RespTooLate == [kind |-> "TooLate"]
NoResponse == [kind |-> "none"]

Stimuli == {SBlank(TrialStimulusUs), SText(TrialStimulusUs)}

TrialPreludes ==
    {PNow} \cup {PBlank(d) : d \in Durations} \cup {PFix(d) : d \in Durations}
           \cup {PPrime(d, SBlank(TrialStimulusUs)) : d \in Durations}

Advances ==
    {AWait(d) : d \in Durations} \cup {AKeys(ks) : ks \in KeySets}
        \cup {AKeysMaxWait(ks, d) : ks \in KeySets, d \in Durations}

(* struct Trial *)
MkTrial(p, s, a) == [prelude |-> p, stimulus |-> s, advance |-> a, state |-> "Init"]

Trials == {MkTrial(p, s, a) : p \in TrialPreludes, s \in Stimuli, a \in Advances}

(* impl Default for Trial *)
DefaultTrial ==
    MkTrial(PBlank(TrialPreludeUs), SBlank(TrialStimulusUs), AWait(TrialAdvanceUs))

NoTrial == [none |-> TRUE]

(* struct Observation, Observation::new *)
NewObservation(trial, resp) == [trial |-> trial, response |-> resp]
NoObs == [none |-> TRUE]

----------------------------------------------------------------------------
(* block::Prelude, block::Relax, block::State, struct Block *)

BNow == [kind |-> "Now"]
BBlank(d) == [kind |-> "Blank", dur |-> d]
BInstruct(d) == [kind |-> "Instruct", dur |-> d, text |-> "text"]
BInstructKeys(ks) == [kind |-> "InstructKeys", keys |-> ks, text |-> "text"]

RNow == [kind |-> "Now"]
RWait(d) == [kind |-> "Wait", dur |-> d]
RKeys(ks) == [kind |-> "Keys", keys |-> ks]
RKeysMaxWait(ks, d) == [kind |-> "KeysMaxWait", keys |-> ks, dur |-> d]

BInit == [kind |-> "Init"]
BPrelude == [kind |-> "Prelude"]
BPresent(i) == [kind |-> "Present", idx |-> i]
BRelax == [kind |-> "Relax"]

BlockPreludes ==
    {BNow, BBlank(BlockPreludeUs), BInstruct(BlockPreludeUs), BInstructKeys({"y"})}

Relaxes ==
    {RNow, RWait(BlockRelaxUs), RKeys({"y"}), RKeysMaxWait({"y"}, BlockRelaxUs)}

MkBlock(p, r, ts, rnd) ==
    [trials |-> ts, random |-> rnd, prelude |-> p, relax |-> r, state |-> BInit]

(* impl Default for Block *)
DefaultBlock ==
    MkBlock(BBlank(BlockPreludeUs), RWait(BlockRelaxUs),
            [i \in 1..NumDefaultTrials |-> DefaultTrial], FALSE)

SeqsUpTo(S, n) == UNION {[1..k -> S] : k \in 0..n}


(* impl Default for Participant, struct Experiment, impl Default for Experiment *)
DefaultParticipant ==
    [id |-> 0, age |-> 42, gender |-> <<"Straight", "Male">>, language |-> "default"]

MkExperiment(bs) ==
    [id |-> "Stroop", blocks |-> bs,
     instructions |-> "Say the color of the word!", random |-> FALSE]

DefaultExperiment == MkExperiment([i \in 1..NumDefaultBlocks |-> DefaultBlock])

(* session::State *)
SInit == [kind |-> "Init"]
SWelcome == [kind |-> "Welcome"]
SConsent == [kind |-> "Consent"]
SDemographics == [kind |-> "Demographics"]
SBlocks(b) == [kind |-> "Blocks", block |-> b]
SGoodbye == [kind |-> "Goodbye"]

(* Session::new *)
NewSession(exp, part) == [part |-> part, exp |-> exp, state |-> SInit]

----------------------------------------------------------------------------
(* The inputs the runs are explored on *)

(* trials a block under test is built from: the default trial, a trial    *)
(* that waits for a key, and a trial with the Prime prelude                *)
KeyTrial == MkTrial(PNow, SText(TrialStimulusUs), AKeys({"n"}))
PrimeTrial ==
    MkTrial(PPrime(TrialPreludeUs, SBlank(TrialStimulusUs)), SBlank(TrialStimulusUs),
            AKeysMaxWait({"y"}, TrialAdvanceUs))

BlockTrials == {DefaultTrial, KeyTrial, PrimeTrial}

BlockInputs ==
    {MkBlock(p, r, ts, rnd) : p \in BlockPreludes, r \in Relaxes,
                              ts \in SeqsUpTo(BlockTrials, MaxTrials), rnd \in BOOLEAN}
        \cup {DefaultBlock}

SessionBlocks ==
    {MkBlock(p, r, ts, FALSE) : p \in {BNow, BBlank(BlockPreludeUs)},
                                r \in {RNow, RKeys({"y"})},
                                ts \in {<<>>, <<DefaultTrial>>, <<KeyTrial, DefaultTrial>>}}

ExperimentInputs ==
    {MkExperiment(bs) : bs \in UNION {[1..k -> SessionBlocks] : k \in 1..MaxBlocks}}
        \cup {DefaultExperiment}

Callers == 1..MaxCalls

----------------------------------------------------------------------------
(* State *)

VARIABLES
    now,        \* the clock, in microseconds
    inputs,     \* the key presses of the participant so far: <<[key, at]>>
    pc,         \* position of the running thread
    entry,      \* the function the run entered by: "trial", "block" or "demo"
    cur,        \* Trial::run's self
    response,   \* Trial::run's local response
    obs,        \* the Observation Trial::run returned
    onset,      \* the clock when cur's state became Present
    presented,  \* the trials presented by the running Block::run, in order
    produced,   \* the Observations its trials returned, in order
    session,    \* the Session behind the Arc<Mutex<..>>
    initial,    \* the Session as Session::new built it
    bi,         \* demo's loop: index of the block being run
    iter,       \* Block::run's loop: self.trials.clone()
    ti,         \* Block::run's loop: index of the trial being run
    out,        \* Block::run's local out
    ret,        \* the vector the last Block::run returned, until it is dropped
    returned,   \* every vector a Block::run of the running demo returned
    lock,       \* the caller holding the Mutex, 0 when free
    poisoned,   \* the Mutex's poison flag
    callers,    \* each demo call: "idle", "running", "done", "panicked"
    printed,    \* the lines println! wrote, in order
    delay       \* the last Delay::new built: the clock then, and its duration

envVars == <<now, inputs>>
trialVars == <<cur, response, obs, onset>>
blockVars == <<iter, ti, out, ret, presented, produced>>
sessVars == <<session, initial, bi, returned, lock, poisoned, callers>>
outVars == <<printed, delay>>
vars == <<now, inputs, pc, entry, cur, response, obs, onset, presented, produced, session,
          initial, bi, iter, ti, out, ret, returned, lock, poisoned, callers,
          printed, delay>>

NoRet == [some |-> FALSE, val |-> <<>>]

(* Delay::new(dur): a timer armed at the clock's value; no caller awaits it *)
NoDelay == [none |-> TRUE]
NewDelay(dur) == [at |-> now, dur |-> dur]
SomeRet(v) == [some |-> TRUE, val |-> v]

(* Block::run's self: demo runs the block in place, through &mut *)
SelfBlock == session.exp.blocks[bi]

InitCommon ==
    /\ now = 0
    /\ inputs = <<>>
    /\ response = NoResponse
    /\ obs = NoObs
    /\ onset = 0
    /\ presented = <<>>
    /\ produced = <<>>
    /\ iter = <<>>
    /\ ti = 0
    /\ out = <<>>
    /\ ret = NoRet
    /\ returned = <<>>
    /\ lock = 0
    /\ poisoned = FALSE
    /\ printed = <<>>
    /\ delay = NoDelay
    /\ initial = session

(* a Trial::run on a trial of its own *)
InitTrial ==
    /\ entry = "trial"
    /\ pc = "t_run"
    /\ cur \in Trials
    /\ session = NewSession(MkExperiment(<<>>), DefaultParticipant)
    /\ bi = 0
    /\ callers = [c \in Callers |-> "done"]
    /\ InitCommon

(* a Block::run on a block of its own *)
InitBlock ==
    /\ entry = "block"
    /\ pc = "b_run"
    /\ cur = NoTrial
    /\ \E b \in BlockInputs :
           session = NewSession(MkExperiment(<<b>>), DefaultParticipant)
    /\ bi = 1
    /\ callers = [c \in Callers |-> "done"]
    /\ InitCommon

(* demo calls on a shared Session *)
Init ==
    /\ entry = "demo"
    /\ pc = "idle"
    /\ cur = NoTrial
    /\ \E e \in ExperimentInputs : session = NewSession(e, DefaultParticipant)
    /\ bi = 0
    /\ callers = [c \in Callers |-> "idle"]
    /\ InitCommon

----------------------------------------------------------------------------
(* The environment *)

Tick ==
    /\ now < MaxTicks * TickUs
    /\ now' = now + TickUs
    /\ UNCHANGED <<inputs, pc, entry, trialVars, blockVars, sessVars, outVars>>

KeyPress ==
    /\ Len(inputs) < MaxInputs
    /\ \E k \in Keys : inputs' = Append(inputs, [key |-> k, at |-> now])
    /\ UNCHANGED <<now, pc, entry, trialVars, blockVars, sessVars, outVars>>

----------------------------------------------------------------------------
(* Trial::run *)

(* Stimulus::load, Trial::prepare *)
Load(stimulus) == stimulus
Prepare(trial) == [trial EXCEPT !.stimulus = Load(@)]

(* self.prepare(); self.state = State::Prelude *)
TrialPrepare ==
    /\ pc = "t_run"
    /\ cur' = [Prepare(cur) EXCEPT !.state = "Prelude"]
    /\ pc' = "t_prelude"
    /\ UNCHANGED <<envVars, entry, response, obs, onset, blockVars, sessVars, outVars>>

(* match self.prelude: Delay::new(dur) builds a timer that is dropped    *)
(* unawaited, Prime is todo!()                                            *)
TrialPreludePanics(p) == p.kind = "Prime"

TrialPrelude ==
    /\ pc = "t_prelude"
    /\ pc' = IF TrialPreludePanics(cur.prelude) THEN "panic" ELSE "t_present"
    /\ delay' = IF cur.prelude.kind \in {"Blank", "Fix"}
                THEN NewDelay(cur.prelude.dur) ELSE delay
    /\ UNCHANGED <<envVars, entry, trialVars, blockVars, sessVars, printed>>

(* self.state = State::Present *)
TrialPresent ==
    /\ pc = "t_present"
    /\ cur' = [cur EXCEPT !.state = "Present"]
    /\ onset' = now
    /\ presented' = Append(presented, cur')
    /\ pc' = "t_respond"
    /\ UNCHANGED <<envVars, entry, response, obs, iter, ti, out, ret, produced, sessVars, outVars>>

(* Delay::new(500ms), dropped unawaited; let response = Response::Choice('y') *)
EmulatedResponse(advance) == RespChoice("y")

TrialRespond ==
    /\ pc = "t_respond"
    /\ response' = EmulatedResponse(cur.advance)
    /\ pc' = "t_ret"
    /\ delay' = NewDelay(RespondDelayUs)
    /\ UNCHANGED <<envVars, entry, cur, obs, onset, blockVars, sessVars, printed>>

(* Observation::new(self.clone(), response) *)
TrialReturn ==
    /\ pc = "t_ret"
    /\ obs' = NewObservation(cur, response)
    /\ produced' = Append(produced, obs')
    /\ pc' = IF entry = "trial" THEN "done" ELSE "b_push"
    /\ UNCHANGED <<envVars, entry, cur, response, onset,
                   iter, ti, out, ret, presented, sessVars, outVars>>

(* a panic unwinds to the entry; in demo the MutexGuard is dropped while  *)
(* panicking, which poisons the Mutex                                      *)
Unwind ==
    /\ pc = "panic"
    /\ IF entry = "demo"
       THEN /\ pc' = "idle"
            /\ poisoned' = TRUE
            /\ lock' = 0
            /\ callers' = [callers EXCEPT ![lock] = "panicked"]
       ELSE /\ pc' = "aborted"
            /\ UNCHANGED <<poisoned, lock, callers>>
    /\ UNCHANGED <<envVars, entry, trialVars, blockVars, session, initial, bi, returned, outVars>>

TrialNext ==
    \/ TrialPrepare
    \/ TrialPrelude
    \/ TrialPresent
    \/ TrialRespond
    \/ TrialReturn
    \/ Unwind
    \/ Tick
    \/ KeyPress

SpecTrial == InitTrial /\ [][TrialNext]_vars


----------------------------------------------------------------------------
(* Block::run, on SelfBlock *)

SetBlockState(st) == session' = [session EXCEPT !.exp.blocks[bi].state = st]

(* let mut out = Vec::new(); self.state = State::Prelude *)
BlockStart ==
    /\ pc = "b_run"
    /\ out' = <<>>
    /\ presented' = <<>>
    /\ produced' = <<>>
    /\ SetBlockState(BPrelude)
    /\ pc' = "b_prelude"
    /\ UNCHANGED <<envVars, entry, trialVars, iter, ti, ret,
                   initial, bi, returned, lock, poisoned, callers, outVars>>

(* match self.prelude.clone(): Now and Instruct go on (the Delay is       *)
(* dropped unawaited), every other variant is todo!()                      *)
BlockPreludePanics(p) == p.kind \notin {"Now", "Instruct"}

BlockPrelude ==
    /\ pc = "b_prelude"
    /\ pc' = IF BlockPreludePanics(SelfBlock.prelude) THEN "panic" ELSE "b_clone"
    /\ delay' = IF SelfBlock.prelude.kind = "Instruct"
                THEN NewDelay(SelfBlock.prelude.dur) ELSE delay
    /\ UNCHANGED <<envVars, entry, trialVars, blockVars, sessVars, printed>>

(* for trial in self.trials.clone() *)
TrialOrder(block) == block.trials

BlockClone ==
    /\ pc = "b_clone"
    /\ iter' = TrialOrder(SelfBlock)
    /\ ti' = 0
    /\ pc' = "b_next"
    /\ UNCHANGED <<envVars, entry, trialVars, out, ret, presented, produced, sessVars, outVars>>

(* the loop head: the next trial, cloned and run, or the end of the loop *)
BlockNextTrial ==
    /\ pc = "b_next"
    /\ IF ti < Len(iter)
       THEN /\ ti' = ti + 1
            /\ cur' = iter[ti + 1]
            /\ response' = NoResponse
            /\ obs' = NoObs
            /\ pc' = "t_run"
       ELSE /\ pc' = "b_relax"
            /\ UNCHANGED <<ti, cur, response, obs>>
    /\ UNCHANGED <<envVars, entry, onset, iter, out, ret, presented, produced, sessVars, outVars>>

(* out.push(obs) *)
PushFront(vec, ob) == <<ob>> \o vec

Push(vec, ob) == Append(vec, ob)

(* the trial run in place, for trial in &mut self.trials, not on a clone *)
BlockPushInPlace ==
    /\ pc = "b_push"
    /\ out' = Push(out, obs)
    /\ session' = [session EXCEPT !.exp.blocks[bi].trials[ti] = cur]
    /\ pc' = "b_next"
    /\ UNCHANGED <<envVars, entry, trialVars, iter, ti, ret, presented, produced,
                   initial, bi, returned, lock, poisoned, callers, outVars>>

BlockPush ==
    /\ pc = "b_push"
    /\ out' = Push(out, obs)
    /\ pc' = "b_next"
    /\ UNCHANGED <<envVars, entry, trialVars, iter, ti, ret, presented, produced, sessVars, outVars>>

(* self.state = State::Relax *)
BlockRelax ==
    /\ pc = "b_relax"
    /\ SetBlockState(BRelax)
    /\ pc' = "b_relaxmatch"
    /\ UNCHANGED <<envVars, entry, trialVars, blockVars,
                   initial, bi, returned, lock, poisoned, callers, outVars>>

(* match self.relax: Now and Wait go on, every other variant is todo!() *)
BlockRelaxPanics(r) == r.kind \notin {"Now", "Wait"}

BlockRelaxMatch ==
    /\ pc = "b_relaxmatch"
    /\ pc' = IF BlockRelaxPanics(SelfBlock.relax) THEN "panic" ELSE "b_ret"
    /\ delay' = IF SelfBlock.relax.kind = "Wait"
                THEN NewDelay(SelfBlock.relax.dur) ELSE delay
    /\ UNCHANGED <<envVars, entry, trialVars, blockVars, sessVars, printed>>

(* out *)
BlockReturn ==
    /\ pc = "b_ret"
    /\ ret' = SomeRet(out)
    /\ returned' = Append(returned, out)
    /\ pc' = IF entry = "block" THEN "done" ELSE "d_drop"
    /\ UNCHANGED <<envVars, entry, trialVars, iter, ti, out, presented, produced,
                   session, initial, bi, lock, poisoned, callers, outVars>>

(* Neither Block::run nor demo reads the input channel: their runs are   *)
(* explored against the clock alone, key presses against Trial::run.      *)
BlockNext ==
    \/ BlockStart
    \/ BlockPrelude
    \/ BlockClone
    \/ BlockNextTrial
    \/ BlockPush
    \/ BlockRelax
    \/ BlockRelaxMatch
    \/ BlockReturn
    \/ TrialPrepare
    \/ TrialPrelude
    \/ TrialPresent
    \/ TrialRespond
    \/ TrialReturn
    \/ Unwind
    \/ Tick

SpecBlock == InitBlock /\ [][BlockNext]_vars

----------------------------------------------------------------------------
(* demo *)

(* Mutex::lock blocks while another caller holds the guard, so the      *)
(* callers that do not hold it are all at their first line and pc is the  *)
(* holder's position.                                                     *)
MutexAlwaysFree == TRUE

MutexFree == lock = 0

(* lock() returns Err on a poisoned Mutex, and unwrap() panics on it *)
PoisonIgnored == FALSE

MutexPoisoned == poisoned

(* session.lock().unwrap() *)
DemoLock(c) ==
    /\ MutexFree
    /\ callers[c] = "idle"
    /\ IF MutexPoisoned
       THEN /\ callers' = [callers EXCEPT ![c] = "panicked"]
            /\ UNCHANGED <<pc, lock, returned>>
       ELSE /\ callers' = [callers EXCEPT ![c] = "running"]
            /\ lock' = c
            /\ returned' = <<>>
            /\ pc' = "d_welcome"
    /\ UNCHANGED <<envVars, entry, trialVars, blockVars, session, initial, bi, poisoned, outVars>>

(* session.state = State::Welcome; println!("Welcome"); the Delay is    *)
(* dropped unawaited                                                      *)
DemoWelcome ==
    /\ pc = "d_welcome"
    /\ session' = [session EXCEPT !.state = SWelcome]
    /\ printed' = Append(printed, "Welcome")
    /\ delay' = NewDelay(WelcomeDelayUs)
    /\ bi' = 0
    /\ pc' = "d_loop"
    /\ UNCHANGED <<envVars, entry, trialVars, blockVars,
                   initial, returned, lock, poisoned, callers>>

(* for block in &mut session.exp.blocks { println!("Block"); block.run(); } *)
DemoNextBlock ==
    /\ pc = "d_loop"
    /\ IF bi < Len(session.exp.blocks)
       THEN /\ bi' = bi + 1
            /\ printed' = Append(printed, "Block")
            /\ pc' = "b_run"
       ELSE /\ pc' = "d_goodbye"
            /\ UNCHANGED <<bi, printed>>
    /\ UNCHANGED <<envVars, entry, trialVars, blockVars,
                   session, initial, returned, lock, poisoned, callers, delay>>

(* block.run(); as a statement: the returned vector is dropped *)
DemoDrop ==
    /\ pc = "d_drop"
    /\ ret' = NoRet
    /\ pc' = "d_loop"
    /\ UNCHANGED <<envVars, entry, trialVars, iter, ti, out, presented, produced, sessVars, outVars>>

(* session.state = State::Goodbye *)
DemoGoodbye ==
    /\ pc = "d_goodbye"
    /\ session' = [session EXCEPT !.state = SGoodbye]
    /\ pc' = "d_unlock"
    /\ UNCHANGED <<envVars, entry, trialVars, blockVars,
                   initial, bi, returned, lock, poisoned, callers, outVars>>

(* the end of demo: the MutexGuard is dropped *)
DemoReturn ==
    /\ pc = "d_unlock"
    /\ callers' = [callers EXCEPT ![lock] = "done"]
    /\ lock' = 0
    /\ pc' = "idle"
    /\ UNCHANGED <<envVars, entry, trialVars, blockVars,
                   session, initial, bi, returned, poisoned, outVars>>

Next ==
    \/ \E c \in Callers : DemoLock(c)
    \/ DemoWelcome
    \/ DemoNextBlock
    \/ DemoDrop
    \/ DemoGoodbye
    \/ DemoReturn
    \/ BlockStart
    \/ BlockPrelude
    \/ BlockClone
    \/ BlockNextTrial
    \/ BlockPush
    \/ BlockRelax
    \/ BlockRelaxMatch
    \/ BlockReturn
    \/ TrialPrepare
    \/ TrialPrelude
    \/ TrialPresent
    \/ TrialRespond
    \/ TrialReturn
    \/ Unwind
    \/ Tick

Spec == Init /\ [][Next]_vars


----------------------------------------------------------------------------
(* Properties of Trial::run, checked under SpecTrial *)

(* the Response variants an Advance policy may resolve to *)
ResponseFamily(advance) ==
    CASE advance.kind = "Wait" -> {"RT"}
      [] advance.kind = "Keys" -> {"Choice", "RT", "RTCorrect"}
      [] advance.kind = "KeysMaxWait" -> {"Choice", "RTCorrect", "TooLate"}

(* the input events in the channel whose key is in the advance's key set *)
Matching(advance) == {i \in 1..Len(inputs) : inputs[i].key \in advance.keys}

TrialReturned == obs # NoObs

(* C1: every Trial run to completion produces exactly one Observation,   *)
(* and its Response variant is of the family of the trial's Advance:      *)
(* Wait gives a timing-only RT, Keys a key choice, KeysMaxWait a key      *)
(* choice or TooLate.                                                     *)
C1_ResponseMatchesAdvance ==
    TrialReturned =>
        /\ Len(produced) = 1
        /\ obs.response.kind \in ResponseFamily(obs.trial.advance)

(* C4: a KeysMaxWait trial that resolves with no matching input event    *)
(* resolves with exactly TooLate, and only after the deadline; one that   *)
(* resolves with a matching event resolves with that key's choice.        *)
C4_InputOrTimeoutDecides ==
    [][(pc = "t_respond" /\ pc' = "t_ret" /\ cur.advance.kind = "KeysMaxWait") =>
          IF Matching(cur.advance) = {}
          THEN response' = RespTooLate /\ now >= onset + cur.advance.dur
          ELSE \E i \in Matching(cur.advance) : response' = RespChoice(inputs[i].key)
      ]_vars

(* C5: a Keys trial has not resolved unless an input event whose key is  *)
(* in its key set has arrived.                                            *)
C5_KeysWaitsForInput ==
    (cur # NoTrial /\ cur.advance.kind = "Keys" /\ response # NoResponse) =>
        Matching(cur.advance) # {}

(* C9: when Trial::run has returned, the trial's state is Feedback, and  *)
(* so is the state of the Trial inside the returned Observation.          *)
C9_ReturnsInFeedback ==
    TrialReturned => (cur.state = "Feedback" /\ obs.trial.state = "Feedback")


----------------------------------------------------------------------------
(* Properties of Block::run, checked under SpecBlock *)

TrialPcs == {"t_run", "t_prelude", "t_present", "t_respond", "t_ret"}
BlockPcs == {"b_run", "b_prelude", "b_clone", "b_next", "b_push", "b_relax",
             "b_relaxmatch", "b_ret"}

(* what a trial is, apart from its state *)
Frame(trial) ==
    [prelude |-> trial.prelude, stimulus |-> trial.stimulus, advance |-> trial.advance]

Count(seq, x) == Cardinality({i \in 1..Len(seq) : Frame(seq[i]) = x})

BlockReturned == ret.some

(* C2: Block::run on the default Block terminates normally and returns   *)
(* exactly 3 Observations.                                                *)
C2_DefaultBlockReturnsThree ==
    (entry = "block" /\ initial.exp.blocks[1] = DefaultBlock) =>
        /\ pc \notin {"panic", "aborted"}
        /\ pc = "done" => Len(ret.val) = NumDefaultTrials

(* C3: the vector a Block::run returns has exactly one Observation per   *)
(* trial of the block; its i-th Observation is the one the i-th presented *)
(* trial produced, with that trial's prelude, stimulus and advance; no    *)
(* trial of the block is skipped or presented twice.                      *)
C3_ObservationsInPresentationOrder ==
    BlockReturned =>
        /\ Len(ret.val) = Len(SelfBlock.trials)
        /\ Len(presented) = Len(SelfBlock.trials)
        /\ ret.val = produced
        /\ \A i \in 1..Len(ret.val) : Frame(ret.val[i].trial) = Frame(presented[i])
        /\ \A i \in 1..Len(SelfBlock.trials) :
               Count(presented, Frame(SelfBlock.trials[i]))
                   = Count(SelfBlock.trials, Frame(SelfBlock.trials[i]))

(* a block of two different trials has returned *)
C3_Witness ==
    /\ BlockReturned
    /\ Len(ret.val) = 2
    /\ Frame(ret.val[1].trial) # Frame(ret.val[2].trial)
    /\ SelfBlock.random

(* C10: while the i-th trial (counted from 0) is run the block's state   *)
(* is Present(i), and the state is Relax only after the last trial has    *)
(* produced its Observation.                                              *)
C10_BlockStateFollowsTrials ==
    /\ pc \in TrialPcs => SelfBlock.state = BPresent(ti - 1)
    /\ (pc \in BlockPcs \cup {"done"} /\ SelfBlock.state = BRelax) =>
           Len(produced) = Len(SelfBlock.trials)

----------------------------------------------------------------------------
(* Properties of demo, checked under Spec *)

RECURSIVE Flatten(_)
Flatten(seqs) == IF seqs = <<>> THEN <<>> ELSE Head(seqs) \o Flatten(Tail(seqs))

(* the Observations the running demo still holds: struct Session has no  *)
(* field for them, so only a returned vector that is not yet dropped      *)
Retained == IF ret.some THEN ret.val ELSE <<>>

SameBlock(a, b) ==
    /\ a.trials = b.trials
    /\ a.prelude = b.prelude
    /\ a.relax = b.relax
    /\ a.random = b.random

SessionOrder ==
    {<<"Init", "Welcome">>, <<"Welcome", "Consent">>, <<"Consent", "Demographics">>,
     <<"Demographics", "Blocks">>, <<"Blocks", "Goodbye">>}

(* C6: a session run takes Session.state from Init through Welcome,      *)
(* Consent, Demographics, Blocks and Goodbye in that order, and while a   *)
(* block is run the state is Blocks(that block).                          *)
C6_SessionStatesInOrder ==
    /\ [](pc \in BlockPcs \cup TrialPcs =>
            (session.state.kind = "Blocks" /\ SameBlock(session.state.block, SelfBlock)))
    /\ [][session'.state.kind # session.state.kind =>
            <<session.state.kind, session'.state.kind>> \in SessionOrder]_vars

(* C7: when the run reaches Goodbye, every Observation its Block::run    *)
(* calls returned is retained, in block order then trial order.           *)
C7_ObservationsRetained ==
    (pc = "d_unlock" /\ session.state = SGoodbye) => Retained = Flatten(returned)

(* C8: after a session run the Session's Experiment and Participant are  *)
(* what they were at Session::new.                                        *)
C8_ExperimentUnchanged ==
    (\E c \in Callers : callers[c] = "done") =>
        (session.exp = initial.exp /\ session.part = initial.part)


----------------------------------------------------------------------------
(* Failures, events, order and waits *)

(* C11: when Block::run fails in its Prelude or Relax policy, the        *)
(* failure reaches the caller together with the Observations the block's  *)
(* trials have produced so far.                                           *)
C11_FailureKeepsObservations ==
    (entry = "block" /\ pc = "aborted"
        /\ (SelfBlock.state = BRelax \/ BlockPreludePanics(SelfBlock.prelude))) =>
        Retained = produced

(* C12: every demo call that has ended, by returning or by aborting,     *)
(* has left Session.state at Goodbye.                                     *)
C12_EveryRunEndsInGoodbye ==
    (entry = "demo" /\ pc = "idle" /\ \E c \in Callers : callers[c] \in {"done", "panicked"})
        => session.state = SGoodbye

(* C13: a Block::run that has returned has emitted a block-start event   *)
(* and, after it, a block-end marker.                                     *)
C13_BlockStartAndEndEmitted ==
    BlockReturned =>
        \E i \in 1..Len(printed) :
            /\ printed[i] = "Block"
            /\ \E j \in (i + 1)..Len(printed) : printed[j] \notin {"Block", "Welcome"}

TrialRank(st) ==
    CASE st = "Init" -> 0 [] st = "Prelude" -> 1 [] st = "Present" -> 2
      [] st = "Feedback" -> 3

BlockRank(st) ==
    CASE st.kind = "Init" -> 0 [] st.kind = "Prelude" -> 1
      [] st.kind = "Present" -> 2 + st.idx [] st.kind = "Relax" -> 3 + MaxTrials + NumDefaultTrials

SessionRank(st) ==
    CASE st.kind = "Init" -> 0 [] st.kind = "Welcome" -> 1 [] st.kind = "Consent" -> 2
      [] st.kind = "Demographics" -> 3 [] st.kind = "Blocks" -> 4 [] st.kind = "Goodbye" -> 5

(* C14: no step assigns a trial, a block or the session a state that is  *)
(* earlier in its declared order than the state it has.                   *)
C14_StatesMoveForward ==
    [][/\ (pc \in TrialPcs /\ pc' \in TrialPcs /\ cur'.state # cur.state) =>
              TrialRank(cur'.state) > TrialRank(cur.state)
       /\ \A b \in 1..Len(session.exp.blocks) :
              session'.exp.blocks[b].state # session.exp.blocks[b].state =>
                  BlockRank(session'.exp.blocks[b].state)
                      > BlockRank(session.exp.blocks[b].state)
       /\ session'.state # session.state =>
              SessionRank(session'.state) > SessionRank(session.state)
      ]_vars

Elapsed(d) == now >= d.at + d.dur

(* C15: with a Blank or Fix prelude a trial is not Present before the    *)
(* prelude's delay has elapsed; with an Instruct prelude a block does not *)
(* start its first trial before the delay has elapsed; with a Wait relax  *)
(* a block does not return before the delay has elapsed.                  *)
C15_WaitsSuspend ==
    /\ (pc = "t_respond" /\ cur.prelude.kind \in {"Blank", "Fix"}) =>
           onset >= delay.at + delay.dur
    /\ (pc = "t_run" /\ ti = 1 /\ SelfBlock.prelude.kind = "Instruct") => Elapsed(delay)
    /\ (pc = "done" /\ BlockReturned /\ SelfBlock.relax.kind = "Wait") => Elapsed(delay)

(* C16: Trial::run gets past the prelude for every Prelude variant,      *)
(* Prime included: it never aborts.                                       *)
C16_EveryPreludeCompletes ==
    entry = "trial" => pc \notin {"panic", "aborted"}

(* C17: once Session.state is Goodbye no step changes it or runs a block *)
(* of the session.                                                        *)
C17_GoodbyeIsTerminal ==
    [][session.state = SGoodbye =>
          (session'.state = SGoodbye /\ pc' \notin BlockPcs \cup TrialPcs)]_vars

(* C18: Block::run changes nothing of the block but its state: when it   *)
(* has returned, the trials (each still in state Init), the random flag,  *)
(* the prelude and the relax are what they were before the call.          *)
C18_BlockRunChangesOnlyState ==
    BlockReturned =>
        /\ SameBlock(SelfBlock, initial.exp.blocks[bi])
        /\ \A i \in 1..Len(SelfBlock.trials) : SelfBlock.trials[i].state = "Init"

(* a block of two trials has returned: its state has changed, and the    *)
(* clones that were run have left Init                                    *)
C18_Witness ==
    /\ BlockReturned
    /\ Len(SelfBlock.trials) = 2
    /\ SelfBlock.state = BRelax
    /\ SelfBlock.state # initial.exp.blocks[bi].state
    /\ \A i \in 1..2 : ret.val[i].trial.state = "Present"

DemoPcs == {"d_welcome", "d_loop", "d_drop", "d_goodbye", "d_unlock", "panic"}

Running == {c \in Callers : callers[c] = "running"}

(* C19: demo calls on one Session are serialized: from before Welcome    *)
(* until after Goodbye the running call holds the lock, and no other call *)
(* is running.                                                            *)
C19_DemoCallsSerialized ==
    /\ Cardinality(Running) <= 1
    /\ (entry = "demo" /\ pc \in DemoPcs \cup BlockPcs \cup TrialPcs) =>
           (lock \in Callers /\ Running = {lock})
    /\ (entry = "demo" /\ lock = 0) => (pc = "idle" /\ Running = {})

(* a second call waits at the lock while the first runs a block *)
C19_Witness ==
    /\ entry = "demo"
    /\ pc \in BlockPcs
    /\ session.state = SWelcome
    /\ \E c \in Callers : c # lock /\ callers[c] = "idle"

(* C20: after a block run has aborted inside demo the lock is free and   *)
(* poisoned and Session.state is still Welcome; every later demo call     *)
(* fails at the lock, so none runs and the state stays Welcome.           *)
C20_PoisonedSessionStaysWelcome ==
    poisoned =>
        /\ session.state = SWelcome
        /\ lock = 0
        /\ pc = "idle"
        /\ \A c \in Callers : callers[c] \in {"idle", "panicked"}

(* a later call has failed at the poisoned lock *)
C20_Witness ==
    /\ poisoned
    /\ \A c \in Callers : callers[c] = "panicked"
    /\ session.state = SWelcome

====
